---- MODULE Spec2Model ----
(***************************************************************************)
(* A model of jpylyzer (src/jpylyzer/jpylyzer.py): the command-line driver  *)
(* checkFiles / checkOneFile, the property remap table, and the box and     *)
(* codestream walkers of the validator it calls.                            *)
(***************************************************************************)
EXTENDS Integers, Sequences, FiniteSets, TLC

VARIABLES
    config,         \* the config module's flags that jpylyzer.py reads
    existingFiles,  \* module-level list of files to be analysed (line 65)
    pc,             \* where the caller of checkFiles is
    args,           \* arguments of the running / last invocation of checkFiles
    ncalls,         \* number of invocations of checkFiles so far
    out,            \* what the running / last invocation wrote to stdout
    nDone,          \* files of existingFiles the running loop has passed
    root,           \* element returned by the last checkOneFile
    heap,           \* element objects of the last checkOneFile, by reference
    resultsJP2,     \* what BoxValidator(...).validate() returned last
    rawResult,      \* the trees of resultsJP2 as they were when it returned
    raised,         \* exception that left the last checkOneFile, or None
    lastEnv,        \* what the environment did to the last checkOneFile
    probe,          \* one leaf put through the remap table
    boxWalk,        \* the Box Walker: its stack of enclosing slices
    cs,             \* the Codestream Walker: its state and what it recorded
    rdfCall,        \* one call of an RDF lookup function and what it gave
    handles         \* the file object and memory map of the last checkOneFile

drv == <<config, existingFiles, pc, args, ncalls, out, nDone, root, heap,
         resultsJP2, rawResult, raised, lastEnv>>

None == "None"

(***************************************************************************)
(* Bounds of the model.                                                     *)
(***************************************************************************)
MaxCalls == 2
MaxPaths == 2

(***************************************************************************)
(* Values.  A text field of an element holds a Python value: an int, a      *)
(* bool, a byte string (the sequence of its byte codes) or a text string.   *)
(* Two values are equal when kind and content are.                          *)
(***************************************************************************)
I(n) == [k |-> "int",   n |-> n, b |-> << >>, s |-> ""]
Bool(v) == [k |-> "bool",  n |-> IF v THEN 1 ELSE 0, b |-> << >>, s |-> ""]
B(codes) == [k |-> "bytes", n |-> 0, b |-> codes, s |-> ""]
S(text) == [k |-> "str",   n |-> 0, b |-> << >>, s |-> text]

(***************************************************************************)
(* The byte strings that are keys of the ICC maps (lines 116-129), as       *)
(* ASCII codes.                                                             *)
(***************************************************************************)
b_scnr == <<115, 99, 110, 114>>
b_mntr == <<109, 110, 116, 114>>
b_prtr == <<112, 114, 116, 114>>
b_link == <<108, 105, 110, 107>>
b_spac == <<115, 112, 97, 99>>
b_abst == <<97, 98, 115, 116>>
b_nmcl == <<110, 109, 99, 108>>
b_APPL == <<65, 80, 80, 76>>
b_MSFT == <<77, 83, 70, 84>>
b_SGI == <<83, 71, 73>>
b_SUNW == <<83, 85, 78, 87>>

(***************************************************************************)
(* generatePropertiesRemapTable: the sub-dictionaries, then the master      *)
(* dictionary keyed by tag name.                                            *)
(***************************************************************************)
yesNoMap == I(0) :> S("no") @@ I(1) :> S("yes")

signMap == I(0) :> S("unsigned") @@ I(1) :> S("signed")

cMap == I(7) :> S("jpeg2000")

methMap ==
    I(1) :> S("Enumerated") @@ I(2) :> S("Restricted ICC") @@
    I(3) :> S("Any ICC") @@ I(4) :> S("Vendor Colour")

enumCSMap == I(16) :> S("sRGB") @@ I(17) :> S("greyscale") @@ I(18) :> S("sYCC")

profileClassMap ==
    B(b_scnr) :> S("Input Device Profile") @@
    B(b_mntr) :> S("Display Device Profile") @@
    B(b_prtr) :> S("Output Device Profile") @@
    B(b_link) :> S("DeviceLink Profile") @@
    B(b_spac) :> S("ColorSpace Conversion Profile") @@
    B(b_abst) :> S("Abstract Profile") @@
    B(b_nmcl) :> S("Named Colour Profile")

primaryPlatformMap ==
    B(b_APPL) :> S("Apple Computer, Inc.") @@
    B(b_MSFT) :> S("Microsoft Corporation") @@
    B(b_SGI) :> S("Silicon Graphics, Inc.") @@
    B(b_SUNW) :> S("Sun Microsystems, Inc.")

transparencyMap == I(0) :> S("Reflective") @@ I(1) :> S("Transparent")

glossinessMap == I(0) :> S("Glossy") @@ I(1) :> S("Matte")

polarityMap == I(0) :> S("Positive") @@ I(1) :> S("Negative")

colourMap == I(0) :> S("Colour") @@ I(1) :> S("Black and white")

renderingIntentMap ==
    I(0) :> S("Perceptual") @@ I(1) :> S("Media-Relative Colorimetric") @@
    I(2) :> S("Saturation") @@ I(3) :> S("ICC-Absolute Colorimetric")

mTypMap == I(0) :> S("direct use") @@ I(1) :> S("palette mapping")

cTypMap ==
    I(0) :> S("colour") @@ I(1) :> S("opacity") @@
    I(2) :> S("premultiplied opacity") @@ I(65535) :> S("not specified")

cAssocMap == I(0) :> S("all colours") @@ I(65535) :> S("no colours")

rsizMap ==
    I(0) :> S("ISO/IEC 15444-1") @@ I(1) :> S("Profile 0") @@ I(2) :> S("Profile 1")

orderMap ==
    I(0) :> S("LRCP") @@ I(1) :> S("RLCP") @@ I(2) :> S("RPCL") @@
    I(3) :> S("PCRL") @@ I(4) :> S("CPRL")

\* the two labels exchanged
transformationMap_swapped == I(0) :> S("5-3 reversible") @@ I(1) :> S("9-7 irreversible")

transformationMap == I(0) :> S("9-7 irreversible") @@ I(1) :> S("5-3 reversible")

qStyleMap ==
    I(0) :> S("no quantization") @@ I(1) :> S("scalar derived") @@
    I(2) :> S("scalar expounded")

registrationMap == I(0) :> S("binary") @@ I(1) :> S("ISO/IEC 8859-15 (Latin)")

generatePropertiesRemapTable ==
    "unkC" :> yesNoMap @@
    "iPR" :> yesNoMap @@
    "profileClass" :> profileClassMap @@
    "primaryPlatform" :> primaryPlatformMap @@
    "embeddedProfile" :> yesNoMap @@
    "profileCannotBeUsedIndependently" :> yesNoMap @@
    "transparency" :> transparencyMap @@
    "glossiness" :> glossinessMap @@
    "polarity" :> polarityMap @@
    "colour" :> colourMap @@
    "renderingIntent" :> renderingIntentMap @@
    "bSign" :> signMap @@
    "mTyp" :> mTypMap @@
    "precincts" :> yesNoMap @@
    "sop" :> yesNoMap @@
    "eph" :> yesNoMap @@
    "multipleComponentTransformation" :> yesNoMap @@
    "codingBypass" :> yesNoMap @@
    "resetOnBoundaries" :> yesNoMap @@
    "termOnEachPass" :> yesNoMap @@
    "vertCausalContext" :> yesNoMap @@
    "predTermination" :> yesNoMap @@
    "segmentationSymbols" :> yesNoMap @@
    "bPCSign" :> signMap @@
    "ssizSign" :> signMap @@
    "c" :> cMap @@
    "meth" :> methMap @@
    "enumCS" :> enumCSMap @@
    "cTyp" :> cTypMap @@
    "cAssoc" :> cAssocMap @@
    "order" :> orderMap @@
    "transformation" :> transformationMap @@
    "rsiz" :> rsizMap @@
    "qStyle" :> qStyleMap @@
    "rcom" :> registrationMap

(***************************************************************************)
(* Trees.  An element tree is the sequence of its nodes in document order,  *)
(* the root left out; a node has the path of its parent and its own path    *)
(* from the root, its tag, its text and the names of its attributes.        *)
(***************************************************************************)
NoneVal == [k |-> "none", n |-> 0, b |-> << >>, s |-> ""]

NoAttrib == [a \in {} |-> ""]

NodeA(parent, tag, text, attrib) ==
    [parent |-> parent,
     path |-> IF parent = "" THEN tag ELSE parent \o "/" \o tag,
     tag |-> tag, text |-> text, attrib |-> attrib]

Node(parent, tag, text) == NodeA(parent, tag, text, NoAttrib)

\* what find() returns when nothing matches (Python's None)
NoNode == [parent |-> None, path |-> None, tag |-> None, text |-> NoneVal,
           attrib |-> NoAttrib]

IsNone(node) == node.path = None

\* element.find(path): the first node at that path, or None
find(tree, path) ==
    IF \E i \in 1..Len(tree) : tree[i].path = path
    THEN tree[CHOOSE i \in 1..Len(tree) :
                /\ tree[i].path = path
                /\ \A j \in 1..(i - 1) : tree[j].path # path]
    ELSE NoNode

\* the truth value of an element: whether it has children
HasChildren(tree, node) ==
    /\ ~IsNone(node)
    /\ \E i \in 1..Len(tree) : tree[i].parent = node.path

\* ET.Element(name): a new element without children
Element == << >>

(***************************************************************************)
(* makeHumanReadable (etpatch): every node whose tag is a key of the remap  *)
(* table and whose text is a key of that entry gets the mapped label;       *)
(* every other text stays as it is.                                         *)
(***************************************************************************)
remapValue(remapTable, tag, textIn) ==
    IF tag \in DOMAIN remapTable
    THEN IF textIn \in DOMAIN remapTable[tag]
         THEN remapTable[tag][textIn]
         ELSE textIn
    ELSE textIn

makeHumanReadable(tree, remapTable) ==
    [i \in 1..Len(tree) |->
        [tree[i] EXCEPT !.text = remapValue(remapTable, tree[i].tag, tree[i].text)]]

\* the default argument of makeHumanReadable(): no table
EmptyTable == [t \in {} |-> << >>]

(***************************************************************************)
(* Python's str() of a bool, as used for success and isValidJP2.            *)
(***************************************************************************)
str(v) == IF v THEN "True" ELSE "False"

(***************************************************************************)
(* Exceptions, by class name, with the classes each is an instance of.      *)
(***************************************************************************)
Bases ==
    "IOError" :> {"IOError", "Exception"} @@
    "FileNotFoundError" :> {"FileNotFoundError", "IOError", "Exception"} @@
    "PermissionError" :> {"PermissionError", "IOError", "Exception"} @@
    "ValueError" :> {"ValueError", "Exception"} @@
    "MemoryError" :> {"MemoryError", "Exception"} @@
    "RuntimeError" :> {"RuntimeError", "Exception"} @@
    "RecursionError" :> {"RecursionError", "RuntimeError", "Exception"} @@
    "OverflowError" :> {"OverflowError", "ArithmeticError", "Exception"} @@
    "IndexError" :> {"IndexError", "LookupError", "Exception"} @@
    "KeyError" :> {"KeyError", "LookupError", "Exception"} @@
    "AttributeError" :> {"AttributeError", "Exception"} @@
    "TypeError" :> {"TypeError", "Exception"} @@
    "NameError" :> {"NameError", "Exception"}

IsInstance(exc, cls) == cls \in Bases[exc]

(***************************************************************************)
(* The validator's results (boxvalidator): the test and property trees of   *)
(* a few files, as the validator builds them, raw values in the text.       *)
(***************************************************************************)
nsRDF == "{http://www.w3.org/1999/02/22-rdf-syntax-ns#}"
nsXMP == "{adobe:ns:meta/}"
nsXAP == "{http://ns.adobe.com/xap/1.0/}"
nsTIFF == "{http://ns.adobe.com/tiff/1.0/}"
nsAUX == "{http://ns.adobe.com/exif/1.0/aux/}"

ihdr == "jp2HeaderBox/imageHeaderBox"
colr == "jp2HeaderBox/colourSpecificationBox"
jp2c == "contiguousCodestreamBox"

TestsAllPass ==
    << Node("", "fileIsNotEmpty", Bool(TRUE)),
       Node("", "signatureBox", NoneVal),
       Node("signatureBox", "signatureIsValid", Bool(TRUE)),
       Node("", "fileTypeBox", NoneVal),
       Node("fileTypeBox", "brandIsValid", Bool(TRUE)),
       Node("", "consistency", NoneVal),
       Node("consistency", "sizDimensionsMatchImageHeader", Bool(TRUE)) >>

HeaderProps(enumCS) ==
    << Node("", "fileTypeBox", NoneVal),
       Node("fileTypeBox", "br", S("jp2 ")),
       Node("", "jp2HeaderBox", NoneVal),
       Node("jp2HeaderBox", "imageHeaderBox", NoneVal),
       Node(ihdr, "height", I(1)),
       Node(ihdr, "width", I(1)),
       Node(ihdr, "c", I(7)),
       Node(ihdr, "unkC", I(0)),
       Node("jp2HeaderBox", "colourSpecificationBox", NoneVal),
       Node(colr, "meth", I(1)),
       Node(colr, "enumCS", I(enumCS)) >>

CodestreamProps(order, transformation) ==
    << Node("", jp2c, NoneVal),
       Node(jp2c, "siz", NoneVal),
       Node(jp2c \o "/siz", "csiz", I(1)),
       Node(jp2c \o "/siz", "ssizDepth", I(8)),
       Node(jp2c \o "/siz", "xTsiz", I(1)),
       Node(jp2c \o "/siz", "yTsiz", I(1)),
       Node(jp2c, "cod", NoneVal),
       Node(jp2c \o "/cod", "order", I(order)),
       Node(jp2c \o "/cod", "layers", I(1)),
       Node(jp2c \o "/cod", "levels", I(0)),
       Node(jp2c \o "/cod", "transformation", I(transformation)),
       Node("", "compressionRatio", I(1)) >>

\* an XML box holding XMP: rdf:Description carries xap:CreateDate as an
\* attribute and nothing else
XmpProps ==
    << Node("", "xmlBox", NoneVal),
       Node("xmlBox", nsXMP \o "xmpmeta", NoneVal),
       Node("xmlBox/" \o nsXMP \o "xmpmeta", nsRDF \o "RDF", NoneVal),
       NodeA("xmlBox/" \o nsXMP \o "xmpmeta/" \o nsRDF \o "RDF",
             nsRDF \o "Description", NoneVal,
             (nsXAP \o "CreateDate") :> "2011-01-01") >>

ContentNames == {"minimal", "lossy", "xmp", "sigonly", "badsig", "badorder"}

TestsOf(content) ==
    CASE content = "minimal" -> TestsAllPass
      [] content = "lossy" -> TestsAllPass
      [] content = "xmp" -> TestsAllPass
      [] content = "sigonly" ->
            << Node("", "fileIsNotEmpty", Bool(TRUE)),
               Node("", "signatureBox", NoneVal),
               Node("signatureBox", "signatureIsValid", Bool(TRUE)),
               Node("", "requiredBoxPresent:fileTypeBox", Bool(FALSE)) >>
      [] content = "badsig" ->
            << Node("", "fileIsNotEmpty", Bool(TRUE)),
               Node("", "signatureBox", NoneVal),
               Node("signatureBox", "signatureIsValid", Bool(FALSE)) >>
      [] content = "badorder" ->
            SubSeq(TestsAllPass, 1, 5) \o
            << Node("", jp2c, NoneVal),
               Node(jp2c, "cod", NoneVal),
               Node(jp2c \o "/cod", "orderIsValid", Bool(FALSE)) >>

PropsOf(content) ==
    CASE content = "minimal" -> HeaderProps(17) \o CodestreamProps(0, 1)
      [] content = "lossy" -> HeaderProps(16) \o CodestreamProps(2, 0)
      [] content = "xmp" -> HeaderProps(17) \o XmpProps \o CodestreamProps(0, 1)
      [] content = "sigonly" -> << >>
      [] content = "badsig" -> << >>
      [] content = "badorder" -> HeaderProps(18) \o CodestreamProps(7, 1)

\* a subtree is passing iff every leaf is true
IsTestLeaf(node) == node.text.k = "bool"

AllLeavesTrue(tests) ==
    \A i \in 1..Len(tests) : IsTestLeaf(tests[i]) => tests[i].text = Bool(TRUE)

(***************************************************************************)
(* BoxValidator("JP2", fileData).validate(): the result for the bytes of    *)
(* fileData; "" stands for no bytes.  isValid is the conjunction of the     *)
(* test leaves.                                                             *)
(***************************************************************************)
validate(fileData) ==
    LET tests == IF fileData = ""
                 THEN << Node("", "fileIsNotEmpty", Bool(FALSE)) >>
                 ELSE TestsOf(fileData)
        characteristics == IF fileData = "" THEN << >> ELSE PropsOf(fileData)
    IN  [isValid |-> AllLeavesTrue(tests),
         tests |-> tests,
         characteristics |-> characteristics]

(***************************************************************************)
(* generateMix and the four generators it calls.  Each returns the          *)
(* exception it raises (None when it returns) and what it generated.        *)
(***************************************************************************)
\* the comparison made with the raw value 1 instead of its label
generateMixBasicDigitalObjectInformation_rawValue(properties, mixFlag) ==
    LET transformation == find(properties, jp2c \o "/cod/transformation")
        ratio == find(properties, "compressionRatio")
        compressionScheme ==
            IF transformation.text = I(1)
            THEN "JPEG 2000 Lossless"
            ELSE "JPEG 2000 Lossy"
    IN  IF IsNone(transformation) \/ IsNone(ratio)
        THEN [raised |-> "AttributeError", compressionScheme |-> None]
        ELSE IF ratio.text = NoneVal
        THEN [raised |-> "TypeError", compressionScheme |-> None]
        ELSE [raised |-> None, compressionScheme |-> compressionScheme]

\* lines 270-300: the compression scheme of mix:Compression, or the exception
\* raised by a lookup in the properties tree
generateMixBasicDigitalObjectInformation(properties, mixFlag) ==
    LET transformation == find(properties, jp2c \o "/cod/transformation")
        ratio == find(properties, "compressionRatio")
        compressionScheme ==
            IF transformation.text = S("5-3 reversible")
            THEN "JPEG 2000 Lossless"
            ELSE "JPEG 2000 Lossy"
    IN  IF IsNone(transformation) \/ IsNone(ratio)
        THEN [raised |-> "AttributeError", compressionScheme |-> None]
        ELSE IF ratio.text = NoneVal
        THEN [raised |-> "TypeError", compressionScheme |-> None]
        ELSE [raised |-> None, compressionScheme |-> compressionScheme]

generateMixBasicImageInformation(properties, mixFlag) ==
    LET Missing(path) == IsNone(find(properties, path))
        iccElement == find(properties, colr \o "/icc")
        comment == find(properties, jp2c \o "/com/comment")
    IN  IF Missing(ihdr \o "/width") \/ Missing(ihdr \o "/height")
        THEN "AttributeError"
        ELSE IF /\ HasChildren(properties, iccElement)
                /\ \/ Missing(colr \o "/icc/colourSpace")
                   \/ Missing(colr \o "/icc/description")
        THEN "AttributeError"
        ELSE IF /\ ~HasChildren(properties, iccElement)
                /\ \/ Missing(colr \o "/enumCS")
                   \/ find(properties, colr \o "/enumCS").text = NoneVal
        THEN "AttributeError"
        ELSE IF ~IsNone(comment) /\ comment.text = NoneVal
        THEN "TypeError"
        ELSE IF \/ Missing(jp2c \o "/siz/xTsiz") \/ Missing(jp2c \o "/siz/yTsiz")
                \/ Missing(jp2c \o "/cod/layers") \/ Missing(jp2c \o "/cod/levels")
        THEN "AttributeError"
        ELSE None

\* the value (a string, or None), or the exception raised
findValueInRDF(tree, prop, prefixPath, ns, tag) ==
    LET path == prefixPath \o "/" \o ns \o tag
        value == find(tree, prop.path \o "/" \o path)
        element == find(tree, prop.path \o "/" \o prefixPath)
    IN  IF ~IsNone(value)
        THEN [raised |-> None,
              value |-> IF value.text = NoneVal THEN None ELSE value.text.s]
        ELSE IF IsNone(element)
        THEN [raised |-> "AttributeError", value |-> None]
        ELSE IF (ns \o tag) \notin DOMAIN element.attrib
        THEN [raised |-> "KeyError", value |-> None]
        ELSE IF element.attrib[ns \o tag] # ""
        THEN [raised |-> None, value |-> element.attrib[ns \o tag]]
        ELSE [raised |-> None, value |-> None]

\* whether it appended (its return value), or the exception raised
addIfExist(tree, prop, prefixPath, ns, tag) ==
    LET v == findValueInRDF(tree, prop, prefixPath, ns, tag)
    IN  [raised |-> v.raised, added |-> v.raised = None /\ v.value # None]

RdfLookups ==
    << <<nsXAP, "CreateDate">>, <<nsTIFF, "Artist">>, <<nsTIFF, "Make">>,
       <<nsTIFF, "Model">>, <<nsAUX, "SerialNumber">>, <<nsXAP, "CreatorTool">> >>

generateMixImageCaptureMetadata(properties, mixFlag) ==
    LET xmlRdf == find(properties, "xmlBox/" \o nsXMP \o "xmpmeta/" \o nsRDF \o "RDF")
        uuidRdf == find(properties, "uuidBox/" \o nsXMP \o "xmpmeta/" \o nsRDF \o "RDF")
        rdfBox == IF HasChildren(properties, xmlRdf) THEN xmlRdf ELSE uuidRdf
        look(i) == findValueInRDF(properties, rdfBox, nsRDF \o "Description",
                                  RdfLookups[i][1], RdfLookups[i][2])
        failing == {i \in 1..Len(RdfLookups) : look(i).raised # None}
    IN  IF ~HasChildren(properties, rdfBox)
        THEN None
        ELSE IF failing = {}
        THEN None
        ELSE look(CHOOSE i \in failing : \A j \in failing : i <= j).raised

generateMixImageAssessmentMetadata(properties, mixFlag) ==
    LET res == "jp2HeaderBox/resolutionBox/"
        Missing(path) == IsNone(find(properties, path))
    IN  IF /\ ~Missing(res \o "captureResolutionBox")
           /\ \/ Missing(res \o "captureResolutionBox/hRescInPixelsPerMeter")
              \/ Missing(res \o "captureResolutionBox/vRescInPixelsPerMeter")
        THEN "AttributeError"
        ELSE IF /\ Missing(res \o "captureResolutionBox")
                /\ ~Missing(res \o "displayResolutionBox")
                /\ \/ Missing(res \o "displayResolutionBox/hResdInPixelsPerMeter")
                   \/ Missing(res \o "displayResolutionBox/vResdInPixelsPerMeter")
        THEN "AttributeError"
        ELSE IF Missing(jp2c \o "/siz") \/ Missing(jp2c \o "/siz/csiz")
        THEN "AttributeError"
        ELSE None

generateMix(properties, mixFlag) ==
    LET mixBdoi == generateMixBasicDigitalObjectInformation(properties, mixFlag)
        mixBio == generateMixBasicImageInformation(properties, mixFlag)
        mixIcm == generateMixImageCaptureMetadata(properties, mixFlag)
        mixIam == generateMixImageAssessmentMetadata(properties, mixFlag)
        exc == IF mixBdoi.raised # None THEN mixBdoi.raised
               ELSE IF mixBio # None THEN mixBio
               ELSE IF mixIcm # None THEN mixIcm
               ELSE mixIam
    IN  [raised |-> exc,
         mix |-> [version |-> mixFlag,
                  compressionScheme |-> mixBdoi.compressionScheme]]

(***************************************************************************)
(* What the environment does to one call of checkOneFile: the first place   *)
(* (if any) where a library call raises, and the content of the file.       *)
(***************************************************************************)
Envs ==
    {[at |-> "getsize", exc |-> "FileNotFoundError", content |-> "minimal"],
     [at |-> "mtime", exc |-> "ValueError", content |-> "minimal"]}
    \cup {[at |-> "open", exc |-> e, content |-> "minimal"] :
            e \in {"IOError", "PermissionError"}}
    \cup {[at |-> "mmap", exc |-> e, content |-> "minimal"] :
            e \in {"IOError", "OverflowError"}}
    \cup {[at |-> "validate", exc |-> e, content |-> "minimal"] :
            e \in {"MemoryError", "RuntimeError", "IndexError"}}
    \cup {[at |-> "none", exc |-> None, content |-> c] :
            c \in ContentNames \cup {"empty"}}

NoEnv == [at |-> None, exc |-> None, content |-> None]

\* without the except ValueError clause
fileToMemoryMap_noSentinel(env) ==
    IF env.at = "open"
    THEN [raised |-> env.exc, fileData |-> None]
    ELSE IF env.content = "empty"
    THEN [raised |-> "ValueError", fileData |-> None]
    ELSE IF env.at = "mmap"
    THEN [raised |-> env.exc, fileData |-> None]
    ELSE [raised |-> None, fileData |-> env.content]

(***************************************************************************)
(* fileToMemoryMap: the memory map of the file (named by its content), the  *)
(* sentinel "" when mmap raises ValueError, or the exception that leaves    *)
(* the function.                                                            *)
(***************************************************************************)
fileToMemoryMap(env) ==
    IF env.at = "open"
    THEN [raised |-> env.exc, fileData |-> None]
    ELSE LET mmapRaised == IF env.content = "empty" THEN "ValueError"
                           ELSE IF env.at = "mmap" THEN env.exc
                           ELSE None
         IN  IF mmapRaised = None
             THEN [raised |-> None, fileData |-> env.content]
             ELSE IF IsInstance(mmapRaised, "ValueError")
             THEN [raised |-> None, fileData |-> ""]
             ELSE [raised |-> mmapRaised, fileData |-> None]

(***************************************************************************)
(* checkOneFile.  Elements live on a heap, by reference: the validator's    *)
(* two trees, and the two the except clause creates.                        *)
(***************************************************************************)
NoMix == [version |-> 0, compressionScheme |-> None]

NoRoot == [xmlns |-> FALSE, path |-> None, success |-> None,
           failureMessage |-> None, isValidJP2 |-> None,
           tests |-> None, properties |-> None, mix |-> NoMix,
           children |-> << >>]

NoResult == [isValid |-> FALSE, tests |-> None, characteristics |-> None]

NoTrees == [tests |-> << >>, characteristics |-> << >>]

EmptyHeap == [r \in {} |-> << >>]

failureMessageOf(exceptionType) ==
    IF exceptionType = "MemoryError"
    THEN "memory error (file size too large)"
    ELSE IF exceptionType = "IOError"
    THEN "I/O error (cannot open file)"
    ELSE IF exceptionType = "RuntimeError"
    THEN "runtime error (please report to developers)"
    ELSE "unknown error (please report to developers)"

Propagate(exc) ==
    [raised |-> exc, root |-> NoRoot, heap |-> EmptyHeap,
     resultsJP2 |-> NoResult, rawResult |-> NoTrees]

\* the printable trees are new objects that are dropped
humanReadableHeap_copy(v) ==
    "validator.tests" :> v.tests @@
    "validator.characteristics" :> v.characteristics

\* lines 594-599: the remap table is generated and the validator's two trees
\* are made printable.  The calls' results are dropped and the same two
\* objects are read afterwards (lines 619, 631, 632), so the calls act in place.
humanReadableHeap(v) ==
    "validator.tests" :> makeHumanReadable(v.tests, EmptyTable) @@
    "validator.characteristics" :>
        makeHumanReadable(v.characteristics, generatePropertiesRemapTable)

\* the try block left early by the exception ex
tryFailed(ex) ==
    [ex |-> ex, isValidJP2 |-> FALSE, tests |-> None,
     characteristics |-> None, heap |-> EmptyHeap,
     resultsJP2 |-> NoResult, rawResult |-> NoTrees]

\* lines 586-599: the try block after validate() returned resultsJP2_
tryValidated(resultsJP2_) ==
    [ex |-> None,
     isValidJP2 |-> resultsJP2_.isValid,
     tests |-> "validator.tests",
     characteristics |-> "validator.characteristics",
     heap |-> humanReadableHeap(resultsJP2_),
     resultsJP2 |-> [isValid |-> resultsJP2_.isValid,
                     tests |-> "validator.tests",
                     characteristics |-> "validator.characteristics"],
     rawResult |-> [tests |-> resultsJP2_.tests,
                    characteristics |-> resultsJP2_.characteristics]]

\* lines 584-585: fileToMemoryMap returned or raised (fm), then validate
tryMapped(env, fm) ==
    IF fm.raised # None THEN tryFailed(fm.raised)
    ELSE IF env.at = "validate" THEN tryFailed(env.exc)
    ELSE tryValidated(validate(fm.fileData))

\* lines 582-599: the try block, up to the exception (ex) that ends it early
tryBlock(env) == tryMapped(env, fileToMemoryMap(env))

\* except IOError
caught_onlyIOError(ex) == IsInstance(ex, "IOError")

\* line 600: except Exception
caught(ex) == IsInstance(ex, "Exception")

\* isValidJP2 is not reset
exceptClause_valid(ex) ==
    [isValidJP2 |-> TRUE,
     success |-> FALSE,
     failureMessage |-> failureMessageOf(ex),
     tests |-> "except.tests",
     characteristics |-> "except.properties",
     heap |-> "except.tests" :> Element @@ "except.properties" :> Element]

\* lines 601-616: the except clause
exceptClause(ex) ==
    [isValidJP2 |-> FALSE,
     success |-> FALSE,
     failureMessage |-> failureMessageOf(ex),
     tests |-> "except.tests",
     characteristics |-> "except.properties",
     heap |-> "except.tests" :> Element @@ "except.properties" :> Element]

\* lines 626-634: the children appended to root, in order
rootChildren ==
    <<"toolInfo", "fileInfo", "statusInfo", "isValidJP2", "tests",
      "properties", "alternativeOutput">>

\* a mix appended whatever isValidJP2 is
rootElement_mixWhenInvalid(path, cfg, r, mix) ==
    [xmlns |-> ~(cfg.inputRecursiveFlag \/ cfg.inputWrapperFlag),
     path |-> path,
     success |-> str(r.success),
     failureMessage |-> r.failureMessage,
     isValidJP2 |-> str(r.isValidJP2),
     tests |-> r.tests,
     properties |-> r.characteristics,
     mix |-> IF cfg.mixFlag # 0 THEN mix.mix ELSE NoMix,
     children |-> rootChildren]

\* lines 621-638: the root element, with the mix (if any) that generateMix
\* returned as the content of alternativeOutput
rootElement(path, cfg, r, mix) ==
    [xmlns |-> ~(cfg.inputRecursiveFlag \/ cfg.inputWrapperFlag),
     path |-> path,
     success |-> str(r.success),
     failureMessage |-> r.failureMessage,
     isValidJP2 |-> str(r.isValidJP2),
     tests |-> r.tests,
     properties |-> r.characteristics,
     mix |-> IF cfg.mixFlag # 0 /\ r.isValidJP2 THEN mix.mix ELSE NoMix,
     children |-> rootChildren]

\* lines 618-638, with what the try statement left in r, and try for the
\* validator's result
afterTryMix(path, cfg, r, try, mix) ==
    IF cfg.mixFlag # 0 /\ r.isValidJP2 /\ mix.raised # None
    THEN Propagate(mix.raised)
    ELSE [raised |-> None,
          root |-> rootElement(path, cfg, r, mix),
          heap |-> r.heap,
          resultsJP2 |-> try.resultsJP2,
          rawResult |-> try.rawResult]

afterTry(path, cfg, r, try) ==
    afterTryMix(path, cfg, r, try, generateMix(r.heap[r.characteristics], cfg.mixFlag))

\* lines 582-616: the try statement
tryStatement(path, cfg, try) ==
    IF try.ex = None
    THEN afterTry(path, cfg,
                  [isValidJP2 |-> try.isValidJP2, success |-> TRUE,
                   failureMessage |-> None, tests |-> try.tests,
                   characteristics |-> try.characteristics, heap |-> try.heap],
                  try)
    ELSE IF caught(try.ex)
    THEN afterTry(path, cfg, exceptClause(try.ex), try)
    ELSE Propagate(try.ex)

checkOneFile(path, env, cfg) ==
    IF env.at = "getsize"
    THEN Propagate(env.exc)
    ELSE IF env.at = "mtime"
    THEN \* the except ValueError clause calls ctime, which is not defined
         IF IsInstance(env.exc, "ValueError")
         THEN Propagate("NameError")
         ELSE Propagate(env.exc)
    ELSE tryStatement(path, cfg, tryBlock(env))

(***************************************************************************)
(* The file system the path arguments are resolved in: a file a.jp2 and a   *)
(* directory d (holding c.jp2 and a subdirectory s with e.jp2) in the       *)
(* working directory /cwd; nothing is called nope.                          *)
(***************************************************************************)
PathArgs == {"a.jp2", "d", "nope"}

isfile(p) == p \in {"a.jp2", "/cwd/a.jp2", "/cwd/d/c.jp2", "/cwd/d/s/e.jp2"}

isdir(p) == p \in {"d", "/cwd", "/cwd/d", "/cwd/d/s"}

\* path arguments whose file-name part holds a wildcard
WildcardArgs == {"*.jp2", "d/*.jp2", "d/*", "d/c*", "d/s*"}

isabs(p) ==
    p \in {"/cwd"} \cup {"/cwd/" \o q : q \in
                           {"a.jp2", "d", "nope", "d/c.jp2", "d/s",
                            "d/s/e.jp2"} \cup WildcardArgs}

abspath(p) == "/cwd/" \o p

\* os.walk(rootDir): (dirname, dirnames, filenames) of every directory, top down
walk(rootDir) ==
    IF rootDir = "/cwd/d"
    THEN << [dirname |-> "/cwd/d", dirnames |-> <<"s">>, filenames |-> <<"c.jp2">>],
            [dirname |-> "/cwd/d/s", dirnames |-> << >>, filenames |-> <<"e.jp2">>] >>
    ELSE IF rootDir = "/cwd/d/s"
    THEN << [dirname |-> "/cwd/d/s", dirnames |-> << >>, filenames |-> <<"e.jp2">>] >>
    ELSE IF rootDir = "/cwd"
    THEN << [dirname |-> "/cwd", dirnames |-> <<"d">>, filenames |-> <<"a.jp2">>],
            [dirname |-> "/cwd/d", dirnames |-> <<"s">>, filenames |-> <<"c.jp2">>],
            [dirname |-> "/cwd/d/s", dirnames |-> << >>, filenames |-> <<"e.jp2">>] >>
    ELSE << >>

\* os.listdir of the three directories
listdir ==
    "/cwd" :> <<"a.jp2", "d">> @@ "/cwd/d" :> <<"c.jp2", "s">> @@
    "/cwd/d/s" :> <<"e.jp2">>

\* the names each file-name pattern matches (fnmatch)
fnmatch ==
    "*.jp2" :> {"a.jp2", "c.jp2", "e.jp2"} @@
    "*" :> {"a.jp2", "c.jp2", "e.jp2", "d", "s"} @@
    "c*" :> {"c.jp2"} @@ "s*" :> {"s"}

\* WILDCARD in p
HasWildcard(p) ==
    \E pattern \in DOMAIN fnmatch :
       \/ p = pattern
       \/ \E dir \in DOMAIN listdir \cup {"d", "d/s"} : p = dir \o "/" \o pattern

\* os.path.split of a path whose file-name part is a pattern
split(p) ==
    CHOOSE pair \in (DOMAIN listdir) \X (DOMAIN fnmatch) :
       p = pair[1] \o "/" \o pair[2]

RECURSIVE MatchesIn(_, _, _)
MatchesIn(dir, names, pattern) ==
    IF names = << >> THEN << >>
    ELSE (IF Head(names) \in fnmatch[pattern]
          THEN <<dir \o "/" \o Head(names)>> ELSE << >>)
         \o MatchesIn(dir, Tail(names), pattern)

\* glob.glob of an absolute path: the entries of its directory that match
\* its pattern, or the path itself if it holds no pattern and exists
glob(p) ==
    IF HasWildcard(p)
    THEN IF split(p)[1] \in DOMAIN listdir
         THEN MatchesIn(split(p)[1], listdir[split(p)[1]], split(p)[2])
         ELSE << >>
    ELSE IF isfile(p) \/ isdir(p) THEN <<p>> ELSE << >>

\* getFiles: what it appends to existingFiles
getFiles(searchpattern) == SelectSeq(glob(searchpattern), isfile)

RECURSIVE PatternInSubdirs(_, _, _)
PatternInSubdirs(dirname, dirnames, pattern) ==
    IF dirnames = << >> THEN << >>
    ELSE getFiles(dirname \o "/" \o Head(dirnames) \o "/" \o pattern)
         \o PatternInSubdirs(dirname, Tail(dirnames), pattern)

RECURSIVE PatternInWalk(_, _)
PatternInWalk(w, pattern) ==
    IF w = << >> THEN << >>
    ELSE PatternInSubdirs(Head(w).dirname, Head(w).dirnames, pattern)
         \o PatternInWalk(Tail(w), pattern)

\* getFilesWithPatternFromTree: what it appends to existingFiles
getFilesWithPatternFromTree(rootDir, pattern) ==
    PatternInWalk(walk(rootDir), pattern)

RECURSIVE JoinAll(_, _)
JoinAll(dirname, filenames) ==
    IF filenames = << >> THEN << >>
    ELSE <<dirname \o "/" \o Head(filenames)>> \o JoinAll(dirname, Tail(filenames))

RECURSIVE FilesOfWalk(_)
FilesOfWalk(w) ==
    IF w = << >> THEN << >>
    ELSE JoinAll(Head(w).dirname, Head(w).filenames) \o FilesOfWalk(Tail(w))

\* getFilesFromTree: what it appends to existingFiles
getFilesFromTree(rootDir) == FilesOfWalk(walk(rootDir))

absolute(p) == IF isabs(p) THEN p ELSE abspath(p)

\* lines 762-785: what the first part of the loop body appends for the path
\* rootPath, filesList being glob.glob of the absolute path
expandWildcard(rootPath, filesList) ==
    IF isfile(rootPath) THEN <<rootPath>>
    ELSE IF HasWildcard(rootPath)
    THEN (IF Len(filesList) = 1 /\ isfile(filesList[1])
          THEN <<filesList[1]>> ELSE << >>)
         \o (IF Len(filesList) > 1
             THEN SelectSeq(filesList, isfile) ELSE << >>)
    ELSE << >>

\* the value of the loop variable root after the first part: a wildcard that
\* glob expands to one directory is replaced by that directory (lines 774-776)
rootAfterExpand(rootPath, filesList) ==
    IF ~isfile(rootPath) /\ HasWildcard(rootPath)
    THEN IF Len(filesList) = 1 /\ isdir(filesList[1])
         THEN filesList[1]
         ELSE absolute(rootPath)
    ELSE rootPath

\* the recursion without the replacement of lines 774-776
recurseInto_keepPattern(rootPath, absRoot) ==
    IF HasWildcard(absolute(rootPath))
    THEN getFilesWithPatternFromTree(split(absolute(rootPath))[1],
                                     split(absolute(rootPath))[2])
    ELSE IF isdir(absRoot) THEN getFilesFromTree(absRoot)
    ELSE << >>

\* lines 794-826: what the recursion appends for the absolute path absRoot
\* (no path drawn here holds a wildcard in its directory part)
recurseInto(rootPath, absRoot) ==
    IF HasWildcard(absRoot)
    THEN getFilesWithPatternFromTree(split(absRoot)[1], split(absRoot)[2])
    ELSE IF isdir(absRoot) THEN getFilesFromTree(absRoot)
    ELSE << >>

\* findFiles: what it appends to existingFiles
RECURSIVE findFiles(_, _)
findFiles(recurse, paths) ==
    IF paths = << >> THEN << >>
    ELSE expandWildcard(Head(paths), glob(absolute(Head(paths))))
         \o (IF recurse
             THEN recurseInto(Head(paths),
                              absolute(rootAfterExpand(
                                  Head(paths), glob(absolute(Head(paths))))))
             ELSE << >>)
         \o findFiles(recurse, Tail(paths))

(***************************************************************************)
(* checkFiles, in three steps: up to the XML head, one file of the loop,    *)
(* and the end of the loop.                                                 *)
(***************************************************************************)
Item(kind, path) == [kind |-> kind, path |-> path]

xmlHead(recurse, wrap) ==
    IF wrap \/ recurse
    THEN << Item("xmldecl", None), Item("<results>", None) >>
    ELSE << Item("xmldecl", None) >>

PathLists == UNION {[1..n -> PathArgs] : n \in 1..MaxPaths}

Flags == [inputRecursiveFlag : BOOLEAN, inputWrapperFlag : BOOLEAN, mixFlag : 0..2]

checkFilesBegin(recurse, wrap, paths) ==
    LET files == existingFiles \o findFiles(recurse, paths)
    IN  /\ ncalls < MaxCalls
        /\ ncalls' = ncalls + 1
        /\ args' = [recurse |-> recurse, wrap |-> wrap, paths |-> paths]
        /\ existingFiles' = files
        /\ nDone' = 0
        /\ raised' = None
        /\ IF Len(files) = 0
           THEN \* checkNoInput: sys.exit
                /\ pc' = "exited"
                /\ out' = << >>
           ELSE /\ pc' = "loop"
                /\ out' = xmlHead(recurse, wrap)
        /\ UNCHANGED <<root, heap, resultsJP2, rawResult, lastEnv, probe,
                       boxWalk, cs, rdfCall, handles>>

\* a caller that imported the module calls checkFiles
checkFiles ==
    /\ pc \in {"idle", "done", "aborted"}
    /\ \E recurse \in BOOLEAN, wrap \in BOOLEAN, paths \in PathLists :
          checkFilesBegin(recurse, wrap, paths)
    /\ UNCHANGED config

\* the command line: main copies the parsed flags to config, then checkFiles
main ==
    /\ pc = "idle"
    /\ ncalls = 0
    /\ \E parsed \in Flags, jp2In \in PathLists :
          /\ config' = parsed
          /\ checkFilesBegin(parsed.inputRecursiveFlag, parsed.inputWrapperFlag,
                             jp2In)

checkFilesLoop ==
    /\ pc = "loop"
    /\ nDone < Len(existingFiles)
    /\ \E env \in Envs :
          LET path == existingFiles[nDone + 1]
              r == checkOneFile(path, env, config)
          IN  IF r.raised # None
              THEN /\ pc' = "aborted"
                   /\ raised' = r.raised
                   /\ UNCHANGED <<out, nDone>>
              ELSE \* writeElement
                   /\ out' = Append(out, Item("jpylyzer", path))
                   /\ nDone' = nDone + 1
                   /\ UNCHANGED <<pc, raised>>
    /\ UNCHANGED <<config, existingFiles, args, ncalls, root, heap, resultsJP2,
                   rawResult, lastEnv, probe, boxWalk, cs, rdfCall, handles>>

checkFilesEnd ==
    /\ pc = "loop"
    /\ nDone = Len(existingFiles)
    /\ out' = IF args.wrap \/ args.recurse
              THEN Append(out, Item("</results>", None))
              ELSE out
    /\ pc' = "done"
    /\ UNCHANGED <<config, existingFiles, args, ncalls, nDone, root, heap,
                   resultsJP2, rawResult, raised, lastEnv, probe, boxWalk, cs,
                   rdfCall, handles>>

NoArgs == [recurse |-> FALSE, wrap |-> FALSE, paths |-> << >>]

\* the defaults of the command-line flags
DefaultFlags == [inputRecursiveFlag |-> FALSE, inputWrapperFlag |-> FALSE,
                 mixFlag |-> 0]

\* no box walk and no codestream walk is running
NoWalk == [frames |-> << >>, nread |-> 0]

NoCodestream == [state |-> "idle", history |-> << >>, failed |-> {},
                 seenCOD |-> FALSE, seenQCD |-> FALSE, last |-> None,
                 nread |-> 0]

\* no RDF lookup was called
NoRdfCall == [tree |-> << >>, lookup |-> 0, called |-> None, raised |-> None,
              value |-> None, added |-> FALSE]

\* no file was opened and no memory map made
NoHandles == [f |-> "none", fileData |-> "none"]

NoProbe == [tag |-> None, textIn |-> NoneVal, textOut |-> NoneVal, done |-> FALSE]

Init ==
    /\ config = DefaultFlags
    /\ existingFiles = << >>
    /\ pc = "idle"
    /\ args = NoArgs
    /\ ncalls = 0
    /\ out = << >>
    /\ nDone = 0
    /\ root = NoRoot
    /\ heap = EmptyHeap
    /\ resultsJP2 = NoResult
    /\ rawResult = NoTrees
    /\ raised = None
    /\ lastEnv = NoEnv
    /\ probe = NoProbe
    /\ boxWalk = NoWalk
    /\ cs = NoCodestream
    /\ rdfCall = NoRdfCall
    /\ handles = NoHandles

Next == main \/ checkFiles \/ checkFilesLoop \/ checkFilesEnd

vars == <<drv, probe, boxWalk, cs, rdfCall, handles>>

Spec == Init /\ [][Next]_vars

(***************************************************************************)
(* One call of checkOneFile, under any flags.                               *)
(***************************************************************************)
FilePaths == {"a.jp2", "/cwd/d/c.jp2"}

\* an object that no statement closed: it is closed when the interpreter
\* frees it, at once under reference counting, at some later time under a
\* tracing collector
Unclosed == {"open", "closed"}

\* the file object f of fileToMemoryMap and the memory map fileData of
\* checkOneFile when checkOneFile is left
handlesAfter(env) ==
    IF env.at \in {"getsize", "mtime", "open"}
    THEN \* open() was not reached, or raised
         {[f |-> "none", fileData |-> "none"]}
    ELSE IF env.content = "empty"
    THEN \* except ValueError: fileData = "", then f.close(); the test
         \* fileData != "" keeps checkOneFile from closing the string
         {[f |-> "closed", fileData |-> "none"]}
    ELSE IF env.at = "mmap"
    THEN \* the exception leaves fileToMemoryMap before f.close()
         {[f |-> c, fileData |-> "none"] : c \in Unclosed}
    ELSE IF env.at = "validate"
    THEN \* the exception leaves the try block before fileData.close()
         {[f |-> "closed", fileData |-> c] : c \in Unclosed}
    ELSE {[f |-> "closed", fileData |-> "closed"]}

InitOneFile ==
    /\ config \in Flags
    /\ existingFiles = << >>
    /\ pc = "idle"
    /\ args = NoArgs
    /\ ncalls = 0
    /\ out = << >>
    /\ nDone = 0
    /\ root = NoRoot
    /\ heap = EmptyHeap
    /\ resultsJP2 = NoResult
    /\ rawResult = NoTrees
    /\ raised = None
    /\ lastEnv = NoEnv
    /\ probe = NoProbe
    /\ boxWalk = NoWalk
    /\ cs = NoCodestream
    /\ rdfCall = NoRdfCall
    /\ handles = NoHandles

callCheckOneFile ==
    /\ pc = "idle"
    /\ \E path \in FilePaths, env \in Envs :
          LET r == checkOneFile(path, env, config)
          IN  /\ root' = r.root
              /\ heap' = r.heap
              /\ resultsJP2' = r.resultsJP2
              /\ rawResult' = r.rawResult
              /\ raised' = r.raised
              /\ lastEnv' = env
              /\ handles' \in handlesAfter(env)
              /\ pc' = "returned"
    /\ UNCHANGED <<config, existingFiles, args, ncalls, out, nDone, probe,
                   boxWalk, cs, rdfCall>>

SpecOneFile == InitOneFile /\ [][callCheckOneFile]_vars

(***************************************************************************)
(* One leaf through the remap table.                                        *)
(***************************************************************************)
RemapTags == DOMAIN generatePropertiesRemapTable \cup {"width", "br"}

RemapValues ==
    {I(n) : n \in {0, 1, 2, 3, 4, 5, 7, 16, 17, 18, 65535}}
    \cup {B(b_scnr), B(b_SGI), B(<<83, 71, 73, 32>>), S("jp2 "), NoneVal}

InitRemap ==
    /\ config = DefaultFlags
    /\ existingFiles = << >>
    /\ pc = "idle"
    /\ args = NoArgs
    /\ ncalls = 0
    /\ out = << >>
    /\ nDone = 0
    /\ root = NoRoot
    /\ heap = EmptyHeap
    /\ resultsJP2 = NoResult
    /\ rawResult = NoTrees
    /\ raised = None
    /\ lastEnv = NoEnv
    /\ probe \in {[tag |-> t, textIn |-> v, textOut |-> NoneVal, done |-> FALSE] :
                    t \in RemapTags, v \in RemapValues}
    /\ boxWalk = NoWalk
    /\ cs = NoCodestream
    /\ rdfCall = NoRdfCall
    /\ handles = NoHandles

remapLeaf ==
    /\ ~probe.done
    /\ probe' = [probe EXCEPT
                   !.textOut = makeHumanReadable(
                                   << Node("", probe.tag, probe.textIn) >>,
                                   generatePropertiesRemapTable)[1].text,
                   !.done = TRUE]
    /\ UNCHANGED <<drv, boxWalk, cs, rdfCall, handles>>

SpecRemap == InitRemap /\ [][remapLeaf]_vars

(***************************************************************************)
(* Properties of checkOneFile (under SpecOneFile).                          *)
(***************************************************************************)
FailureMessages ==
    {"memory error (file size too large)",
     "I/O error (cannot open file)",
     "runtime error (please report to developers)",
     "unknown error (please report to developers)"}

\* C1: whatever exception is raised while the file is memory-mapped or
\* validated, no exception leaves checkOneFile and the element it returns
\* has success False, isValidJP2 False, a failure message and empty tests
\* and properties trees.
C1_ExceptionGivesFailureResult ==
    (pc = "returned" /\ lastEnv.at \in {"open", "mmap", "validate"}) =>
        /\ raised = None
        /\ root.success = "False"
        /\ root.isValidJP2 = "False"
        /\ root.failureMessage \in FailureMessages
        /\ heap[root.tests] = << >>
        /\ heap[root.properties] = << >>

C1_Witness ==
    /\ pc = "returned"
    /\ lastEnv.at = "validate"
    /\ lastEnv.exc = "IndexError"
    /\ root.success = "False"
    /\ heap[root.tests] = << >>

\* C2 as claimed: in every result, isValidJP2 is true iff every test leaf of
\* the tests tree is true (so a result with isValidJP2 false has a false leaf).
C2_ValidIffEveryLeafTrue ==
    (pc = "returned" /\ raised = None) =>
        (root.isValidJP2 = "True" <=> AllLeavesTrue(heap[root.tests]))

\* C2 as amended: in every result with success True, isValidJP2 is true iff
\* every test leaf is true; in a result of the except clause (success False)
\* isValidJP2 is false and the tests tree is empty.
C2_ValidIffEveryLeafTrueOnSuccess ==
    (pc = "returned" /\ raised = None) =>
        /\ root.success = "True" =>
              (root.isValidJP2 = "True" <=> AllLeavesTrue(heap[root.tests]))
        /\ root.success = "False" =>
              (root.isValidJP2 = "False" /\ heap[root.tests] = << >>)

C2_Witness ==
    /\ pc = "returned"
    /\ root.success = "True"
    /\ root.isValidJP2 = "False"
    /\ \E i \in 1..Len(heap[root.tests]) : heap[root.tests][i].text = Bool(FALSE)

\* C3: for an empty file, fileToMemoryMap returns the sentinel, the validator
\* is run on it, and the result has isValidJP2 False, the test leaf
\* fileIsNotEmpty = False and an empty properties tree.
C3_EmptyFile ==
    (pc = "returned" /\ lastEnv.at = "none" /\ lastEnv.content = "empty") =>
        /\ raised = None
        /\ root.success = "True"
        /\ root.isValidJP2 = "False"
        /\ \E i \in 1..Len(heap[root.tests]) :
              /\ heap[root.tests][i].tag = "fileIsNotEmpty"
              /\ heap[root.tests][i].text = Bool(FALSE)
        /\ heap[root.properties] = << >>

C3_Witness ==
    /\ pc = "returned"
    /\ lastEnv.content = "empty"
    /\ lastEnv.at = "none"
    /\ root.isValidJP2 = "False"
    /\ Len(heap[root.tests]) = 1

\* C4 as claimed: the trees of the validator's result are the same after
\* checkOneFile applied makeHumanReadable as when the validator returned.
C4_ValidatorTreesUnchanged ==
    (pc = "returned" /\ resultsJP2 # NoResult) =>
        /\ heap[resultsJP2.tests] = rawResult.tests
        /\ heap[resultsJP2.characteristics] = rawResult.characteristics

\* C4 as amended: makeHumanReadable acts in place.  The tests and properties
\* elements of the result are the objects the validator returned, and after
\* checkOneFile every node of the validator's properties tree whose tag and
\* raw value are keys of the remap table holds the label instead of the raw
\* value; every other text is as the validator left it.
C4_ValidatorTreesRemappedInPlace ==
    (pc = "returned" /\ resultsJP2 # NoResult) =>
        LET T == generatePropertiesRemapTable
            raw == rawResult.characteristics
            now == heap[resultsJP2.characteristics]
        IN  /\ root.tests = resultsJP2.tests
            /\ root.properties = resultsJP2.characteristics
            /\ heap[resultsJP2.tests] = rawResult.tests
            /\ Len(now) = Len(raw)
            /\ \A i \in 1..Len(raw) :
                  IF raw[i].tag \in DOMAIN T /\ raw[i].text \in DOMAIN T[raw[i].tag]
                  THEN /\ now[i].text = T[raw[i].tag][raw[i].text]
                       /\ now[i].text # raw[i].text
                  ELSE now[i] = raw[i]

C4_Witness ==
    /\ pc = "returned"
    /\ resultsJP2 # NoResult
    /\ find(rawResult.characteristics, colr \o "/enumCS").text = I(17)
    /\ find(heap[resultsJP2.characteristics], colr \o "/enumCS").text = S("greyscale")

(***************************************************************************)
(* Properties of the remap table (under SpecRemap).                         *)
(***************************************************************************)
\* C5: the mapping of a leaf (n, v) gives the label table[n][v] when n is a
\* key of the table and v a key of table[n], and v itself otherwise; order 0
\* gives LRCP, transformation 1 gives 5-3 reversible, enumCS 17 greyscale.
C5_LabelOrPassThrough ==
    probe.done =>
        LET T == generatePropertiesRemapTable
        IN  /\ IF probe.tag \in DOMAIN T /\ probe.textIn \in DOMAIN T[probe.tag]
               THEN probe.textOut = T[probe.tag][probe.textIn]
               ELSE probe.textOut = probe.textIn
            /\ (probe.tag = "order" /\ probe.textIn = I(0)) =>
                  probe.textOut = S("LRCP")
            /\ (probe.tag = "transformation" /\ probe.textIn = I(1)) =>
                  probe.textOut = S("5-3 reversible")
            /\ (probe.tag = "enumCS" /\ probe.textIn = I(17)) =>
                  probe.textOut = S("greyscale")
            /\ (probe.tag \in {"width", "br"}) => probe.textOut = probe.textIn
            /\ (probe.tag = "order" /\ probe.textIn = I(5)) =>
                  probe.textOut = I(5)

C5_Witness ==
    /\ probe.done
    /\ probe.tag = "transformation"
    /\ probe.textIn = I(1)
    /\ probe.textOut = S("5-3 reversible")

(***************************************************************************)
(* Properties of checkFiles (under Spec).                                   *)
(***************************************************************************)
Range(seq) == {seq[i] : i \in 1..Len(seq)}

\* the paths of the jpylyzer elements written, in the order written
RECURSIVE ElementPaths(_)
ElementPaths(items) ==
    IF items = << >> THEN << >>
    ELSE (IF Head(items).kind = "jpylyzer" THEN <<Head(items).path>> ELSE << >>)
         \o ElementPaths(Tail(items))

Ended == pc \in {"done", "aborted"}

\* C6: the files an invocation of checkFiles analyses are determined by its
\* own arguments: every element it writes is for a file that findFiles finds
\* for the paths it was given.
C6_OnlyOwnFilesAnalysed ==
    \A i \in 1..Len(out) :
        out[i].kind = "jpylyzer" =>
            out[i].path \in Range(findFiles(args.recurse, args.paths))

\* C7: when a run of checkFiles with wrap or recurse has ended, its output is
\* the XML declaration, the opening results tag, jpylyzer elements only, and
\* the closing results tag as the last item; with neither flag no results tag
\* is written; the opening tag is written iff the closing tag is.
C7_ResultsTagsAroundElements ==
    Ended =>
        LET opened == \E i \in 1..Len(out) : out[i].kind = "<results>"
            closed == \E i \in 1..Len(out) : out[i].kind = "</results>"
        IN  /\ opened <=> closed
            /\ (args.wrap \/ args.recurse) =>
                  /\ Len(out) >= 3
                  /\ out[1].kind = "xmldecl"
                  /\ out[2].kind = "<results>"
                  /\ out[Len(out)].kind = "</results>"
                  /\ \A i \in 3..(Len(out) - 1) : out[i].kind = "jpylyzer"
            /\ ~(args.wrap \/ args.recurse) => ~opened /\ ~closed

MaxBoxes == 4
MaxDepth == 2

RECURSIVE beValue(_)
beValue(bytes) ==
    IF bytes = << >> THEN 0
    ELSE beValue(SubSeq(bytes, 1, Len(bytes) - 1)) * 256 + bytes[Len(bytes)]

uint(bytes) ==
    LET n == Len(bytes)
    IN  [big |-> \E i \in 1..(n - 3) : bytes[i] # 0,
         n   |-> beValue(SubSeq(bytes, IF n > 3 THEN n - 2 ELSE 1, n))]

Small(n) == [big |-> FALSE, n |-> n]

u16be(bytes) == beValue(bytes)
u32be(bytes) == uint(bytes)
u64be(bytes) == uint(bytes)

AtLeast(v, k) == v.big \/ v.n >= k
AtMost(v, k) == ~v.big /\ v.n <= k

\* the box table of the Element Registry (4.3)
boxTable ==
    {"jP  ", "ftyp", "jp2h", "ihdr", "bpcc", "colr", "pclr", "cmap", "cdef",
     "res ", "resc", "resd", "jp2c", "xml ", "uuid", "uinf", "ulst", "url "}

\* box types whose payload is itself a sequence of boxes
Superboxes == {"jp2h", "res ", "uinf"}

\* lengths of the outermost slice, 2 KiB among them
SliceLens == {0, 4, 8, 20, 2048}

\* header bytes the walker may meet: LBox 0, 1, 4, 8, 12, 2048 and 2^24
LBoxBytes ==
    {<<0, 0, 0, 0>>, <<0, 0, 0, 1>>, <<0, 0, 0, 4>>, <<0, 0, 0, 8>>,
     <<0, 0, 0, 12>>, <<0, 0, 8, 0>>, <<1, 0, 0, 0>>}

\* XLBox 8, 24 and 2^40
XLBoxBytes ==
    {<<0, 0, 0, 0, 0, 0, 0, 8>>, <<0, 0, 0, 0, 0, 0, 0, 24>>,
     <<0, 0, 1, 0, 0, 0, 0, 0>>}

TBoxes == {"jp2h", "ihdr", "zzzz"}

NoXL == << >>

\* the bytes at the walker's offset, as far as it reads them: nothing of a
\* header that does not fit, XLBox only behind LBox = 1
BoxInputs(rem, depth) ==
    IF rem < 8 THEN {[lbox |-> << >>, tbox |-> None, xl |-> NoXL]}
    ELSE {[lbox |-> l, tbox |-> t, xl |-> x] :
            l \in LBoxBytes \ {<<0, 0, 0, 1>>},
            t \in IF depth < MaxDepth THEN TBoxes ELSE TBoxes \ Superboxes,
            x \in {NoXL}}
         \cup
         {[lbox |-> <<0, 0, 0, 1>>, tbox |-> t, xl |-> x] :
            t \in IF depth < MaxDepth THEN TBoxes ELSE TBoxes \ Superboxes,
            x \in IF rem < 16 THEN {NoXL} ELSE XLBoxBytes}

\* steps 1 to 3: LBox, XLBox behind LBox = 1, TBox; LBox = 0 extends the box
\* to the end of the enclosing slice
readBoxHeader(rem, h) ==
    IF rem < 8
    THEN [truncated |-> TRUE, length |-> Small(0), header_size |-> 8,
          tbox |-> None]
    ELSE IF u32be(h.lbox) = Small(1)
         THEN IF rem < 16
              THEN [truncated |-> TRUE, length |-> Small(0),
                    header_size |-> 16, tbox |-> h.tbox]
              ELSE [truncated |-> FALSE, length |-> u64be(h.xl),
                    header_size |-> 16, tbox |-> h.tbox]
         ELSE IF u32be(h.lbox) = Small(0)
              THEN [truncated |-> FALSE, length |-> Small(rem),
                    header_size |-> 8, tbox |-> h.tbox]
              ELSE [truncated |-> FALSE, length |-> u32be(h.lbox),
                    header_size |-> 8, tbox |-> h.tbox]

\* a length test that forgets the enclosing slice
lengthIsValid_headerOnly(length, header_size, rem) ==
    AtLeast(length, header_size)

\* step 4: the length is at least the header and does not overrun the slice
lengthIsValid(length, header_size, rem) ==
    AtLeast(length, header_size) /\ AtMost(length, rem)

\* the result of one box as appended under the enclosing element
BoxResult(hdr, valid, consumed, children) ==
    [tbox |-> hdr.tbox, declared |-> hdr.length,
     header_size |-> hdr.header_size, lengthIsValid |-> valid,
     typeIsKnown |-> hdr.tbox \in boxTable, bytes_consumed |-> consumed,
     children |-> children]

Frame(len, hdr) ==
    [len |-> len, offset |-> 0, results |-> << >>, status |-> "walking",
     box |-> hdr]

\* the header of the element whose payload is the outermost slice
RootBox(len) ==
    [truncated |-> FALSE, length |-> Small(len), header_size |-> 0,
     tbox |-> "JP2"]

\* steps 4 to 6 for the box whose header was read at the offset of frame f
walkStep(frames, d, f, hdr) ==
    IF hdr.truncated
       \/ ~lengthIsValid(hdr.length, hdr.header_size, f.len - f.offset)
    THEN [frames EXCEPT ![d] =
            [f EXCEPT !.results = Append(@, BoxResult(hdr, FALSE, 0, << >>)),
                      !.status = "stopped"]]
    ELSE IF hdr.tbox \in Superboxes
         THEN Append(frames, Frame(hdr.length.n - hdr.header_size, hdr))
         ELSE [frames EXCEPT ![d] =
                 [f EXCEPT
                    !.results = Append(@, BoxResult(hdr, TRUE, hdr.length.n,
                                                    << >>)),
                    !.offset = @ + hdr.length.n]]

\* one box of the slice on top of the stack
walkBox ==
    /\ boxWalk.frames # << >>
    /\ LET d == Len(boxWalk.frames)
           f == boxWalk.frames[d]
       IN  /\ f.status = "walking"
           /\ f.offset < f.len
           /\ boxWalk.nread < MaxBoxes
           /\ \E h \in BoxInputs(f.len - f.offset, d) :
                 boxWalk' = [frames |->
                               walkStep(boxWalk.frames, d, f,
                                        readBoxHeader(f.len - f.offset, h)),
                             nread |-> boxWalk.nread + 1]
    /\ UNCHANGED <<drv, probe, cs, rdfCall, handles>>

\* the offset has reached the end of the slice
walkEnd ==
    /\ boxWalk.frames # << >>
    /\ LET d == Len(boxWalk.frames)
           f == boxWalk.frames[d]
       IN  /\ f.status = "walking"
           /\ f.offset = f.len
           /\ boxWalk' = [boxWalk EXCEPT !.frames[d].status = "end"]
    /\ UNCHANGED <<drv, probe, cs, rdfCall, handles>>

\* the walk of a superbox's payload is over: its result is appended under the
\* enclosing element, which goes on behind the superbox
walkReturn ==
    /\ Len(boxWalk.frames) > 1
    /\ LET d == Len(boxWalk.frames)
           f == boxWalk.frames[d]
           parent == boxWalk.frames[d - 1]
       IN  /\ f.status \in {"end", "stopped"}
           /\ boxWalk' = [boxWalk EXCEPT !.frames =
                 [SubSeq(boxWalk.frames, 1, d - 1) EXCEPT ![d - 1] =
                    [parent EXCEPT
                       !.results = Append(@, BoxResult(f.box, TRUE,
                                                       f.box.length.n,
                                                       f.results)),
                       !.offset = @ + f.box.length.n]]]
    /\ UNCHANGED <<drv, probe, cs, rdfCall, handles>>

InitBox ==
    /\ config = DefaultFlags
    /\ existingFiles = << >>
    /\ pc = "idle"
    /\ args = NoArgs
    /\ ncalls = 0
    /\ out = << >>
    /\ nDone = 0
    /\ root = NoRoot
    /\ heap = EmptyHeap
    /\ resultsJP2 = NoResult
    /\ rawResult = NoTrees
    /\ raised = None
    /\ lastEnv = NoEnv
    /\ probe = NoProbe
    /\ boxWalk \in {[frames |-> << Frame(n, RootBox(n)) >>, nread |-> 0] :
                      n \in SliceLens}
    /\ cs = NoCodestream
    /\ rdfCall = NoRdfCall
    /\ handles = NoHandles

NextBox == walkBox \/ walkEnd \/ walkReturn

SpecBox == InitBox /\ [][NextBox]_vars

RECURSIVE SumConsumed(_)
SumConsumed(results) ==
    IF results = << >> THEN 0
    ELSE results[1].bytes_consumed + SumConsumed(Tail(results))

IsPrefix(s, t) == Len(s) <= Len(t) /\ SubSeq(t, 1, Len(s)) = s

\* the results of one slice of length len: consumption is bounded, and a box
\* passes lengthIsValid exactly when its declared length covers its header
\* and fits what was left of the slice; a failing box is the last one
RECURSIVE BoundedResults(_, _)
BoundedResults(results, len) ==
    /\ SumConsumed(results) <= len
    /\ \A k \in 1..Len(results) :
          LET r == results[k]
              rem == len - SumConsumed(SubSeq(results, 1, k - 1))
          IN  /\ r.lengthIsValid <=>
                    (AtLeast(r.declared, r.header_size)
                     /\ AtMost(r.declared, rem))
              /\ r.declared.big => ~r.lengthIsValid
              /\ ~r.lengthIsValid => k = Len(results) /\ r.bytes_consumed = 0
              /\ r.lengthIsValid =>
                    BoundedResults(r.children,
                                   r.bytes_consumed - r.header_size)

WalkBounded ==
    \A i \in 1..Len(boxWalk.frames) :
       LET f == boxWalk.frames[i]
       IN  /\ BoundedResults(f.results, f.len)
           /\ f.offset = SumConsumed(f.results)
           /\ (f.status = "stopped") <=>
                 (f.results # << >>
                  /\ ~f.results[Len(f.results)].lengthIsValid)
           /\ i < Len(boxWalk.frames) =>
                 f.offset + boxWalk.frames[i + 1].box.length.n <= f.len

ResultsKept ==
    \A i \in 1..Len(boxWalk.frames) :
       i <= Len(boxWalk'.frames) =>
          IsPrefix(boxWalk.frames[i].results, boxWalk'.frames[i].results)

\* C8: at every step of a box boxWalk the bytes consumed by the boxes of a slice
\* sum to at most the slice length, at every level; a box whose declared
\* length is below its header size or overruns the slice (an XLBox of 2^40
\* among them) records lengthIsValid = false, consumes nothing and stops the
\* walk of its slice; no step removes or changes a result produced before.
C8_BoundedConsumption == []WalkBounded /\ [][ResultsKept]_vars

\* an XLBox of 2^40 met in a 2 KiB slice behind two boxes that were accepted
C8_Witness ==
    /\ Len(boxWalk.frames) = 1
    /\ boxWalk.frames[1].len = 2048
    /\ boxWalk.frames[1].status = "stopped"
    /\ Len(boxWalk.frames[1].results) = 3
    /\ boxWalk.frames[1].results[3].declared.big
    /\ boxWalk.frames[1].results[3].header_size = 16
    /\ ~boxWalk.frames[1].results[3].lengthIsValid
    /\ boxWalk.frames[1].results[2].lengthIsValid
    /\ boxWalk.frames[1].results[1].children # << >>

(***************************************************************************)
(* The Codestream Walker of the validator (boxvalidator.py), after section  *)
(* 4.6 of the specification: the markers of the payload of the Contiguous   *)
(* Codestream Box, looked up in the marker table of section 4.3.            *)
(***************************************************************************)
MaxMarkers == 9

\* the marker table of the Element Registry (4.3), by marker code
markerTable ==
    (65359 :> "SOC") @@ (65361 :> "SIZ") @@ (65362 :> "COD") @@
    (65363 :> "COC") @@ (65372 :> "QCD") @@ (65373 :> "QCC") @@
    (65374 :> "RGN") @@ (65375 :> "POC") @@ (65365 :> "TLM") @@
    (65367 :> "PLM") @@ (65368 :> "PLT") @@ (65379 :> "CRG") @@
    (65380 :> "COM") @@ (65424 :> "SOT") @@ (65427 :> "SOD") @@
    (65497 :> "EOC") @@ (65425 :> "SOP") @@ (65426 :> "EPH")

kindOf(code) ==
    IF code \in DOMAIN markerTable THEN markerTable[code] ELSE "Unknown"

\* markers that have no length field (section 3, Marker Segment)
Delimiters == {"SOC", "SOD", "EOC", "SOT", "SOP", "EPH"}

MainHeaderMarkers ==
    {"COD", "COC", "QCD", "QCC", "RGN", "POC", "PPM", "TLM", "PLM", "CRG",
     "COM"}

TilePartHeaderMarkers ==
    {"COD", "COC", "QCD", "QCC", "RGN", "POC", "PPT", "PLT", "COM"}

\* in-bitstream markers that tile data may hold
TileDataMarkers == {"SOP", "EPH"}

\* marker codes the walker may meet: SOC, SIZ, COD, QCD, COM, PLT, SOT, SOP,
\* SOD, EOC and the code 0xFF30, which the marker table does not hold
MarkerBytes ==
    {<<255, 79>>, <<255, 81>>, <<255, 82>>, <<255, 92>>, <<255, 100>>,
     <<255, 88>>, <<255, 144>>, <<255, 145>>, <<255, 147>>, <<255, 217>>,
     <<255, 48>>}

\* what the walker finds at its offset: the end of the data, or a marker
\* whose segment, if it has a length field, fits the rest of the data or not
CodestreamInputs ==
    {[eod |-> TRUE, marker |-> << >>, fits |-> TRUE]}
    \cup {[eod |-> FALSE, marker |-> m, fits |-> TRUE] : m \in MarkerBytes}
    \cup {[eod |-> FALSE, marker |-> m, fits |-> FALSE] :
            m \in {b \in MarkerBytes : kindOf(u16be(b)) \notin Delimiters}}

\* a failing test is recorded and the walker goes on in its state
note(c, tests, kind) ==
    [c EXCEPT !.failed = @ \cup tests, !.last = kind, !.nread = @ + 1]

\* a failing test is recorded and the walker stops
stop(c, tests, kind) ==
    [c EXCEPT !.failed = @ \cup tests, !.state = "Stopped", !.last = kind,
              !.nread = @ + 1]

\* the marker is consumed: it is recorded and the walker is in state next
take(c, kind, next) ==
    [c EXCEPT !.history = Append(@, kind), !.state = next, !.last = kind,
              !.nread = @ + 1]

\* a marker the state does not allow: a failing test, after which the walker
\* either goes on in its state or stops
disallowed(c, kind, cont) ==
    IF cont THEN note(c, {"markerIsAllowed"}, kind)
    ELSE stop(c, {"markerIsAllowed"}, kind)

\* Initial and ExpectSIZ: one marker is required
requireMarker(c, inp, cont, required, next) ==
    IF inp.eod THEN stop(c, {"unexpectedEndOfBox"}, None)
    ELSE IF kindOf(u16be(inp.marker)) = required
         THEN IF inp.fits THEN take(c, required, next)
              ELSE stop(c, {"segmentLengthIsValid"}, required)
         ELSE IF kindOf(u16be(inp.marker)) = "Unknown"
              THEN IF inp.fits THEN note(c, {"markerIsKnown"}, "Unknown")
                   ELSE stop(c, {"markerIsKnown", "segmentLengthIsValid"},
                             "Unknown")
              ELSE disallowed(c, kindOf(u16be(inp.marker)), cont)

\* a main header without a QCD requirement
requiredInMainHeader_onlyCOD(c) ==
    IF c.seenCOD THEN {} ELSE {"codPresent"}

\* at least one COD and one QCD in the main header
requiredInMainHeader(c) ==
    (IF c.seenCOD THEN {} ELSE {"codPresent"})
    \cup (IF c.seenQCD THEN {} ELSE {"qcdPresent"})

\* MainHeader and TilePartHeader: any of the allowed segments, in any order,
\* until the delimiter that leads to state next
headerMarker(c, inp, cont, allowed, delimiter, next, missing, inMain) ==
    IF inp.eod THEN stop(c, {"unexpectedEndOfBox"}, None)
    ELSE IF kindOf(u16be(inp.marker)) = "Unknown"
    THEN IF inp.fits THEN note(c, {"markerIsKnown"}, "Unknown")
         ELSE stop(c, {"markerIsKnown", "segmentLengthIsValid"}, "Unknown")
    ELSE IF kindOf(u16be(inp.marker)) \in allowed
    THEN IF inp.fits
         THEN [take(c, kindOf(u16be(inp.marker)), c.state) EXCEPT
                 !.seenCOD = @ \/ (inMain /\ kindOf(u16be(inp.marker)) = "COD"),
                 !.seenQCD = @ \/ (inMain /\ kindOf(u16be(inp.marker)) = "QCD")]
         ELSE stop(c, {"segmentLengthIsValid"}, kindOf(u16be(inp.marker)))
    ELSE IF kindOf(u16be(inp.marker)) = delimiter
    THEN [take(c, delimiter, next) EXCEPT !.failed = @ \cup missing]
    ELSE disallowed(c, kindOf(u16be(inp.marker)), cont)

\* TileData: the scan for the next marker in the packet data
tileDataMarker(c, inp, cont) ==
    IF inp.eod THEN stop(c, {"unexpectedEndOfBox"}, None)
    ELSE IF kindOf(u16be(inp.marker)) = "SOT"
    THEN take(c, "SOT", "TilePartHeader")
    ELSE IF kindOf(u16be(inp.marker)) = "EOC"
    THEN take(c, "EOC", "EOC")
    ELSE IF kindOf(u16be(inp.marker)) \in TileDataMarkers
    THEN take(c, kindOf(u16be(inp.marker)), c.state)
    ELSE disallowed(c, kindOf(u16be(inp.marker)), cont)

csInitial ==
    /\ cs.state = "Initial"
    /\ cs.nread < MaxMarkers
    /\ \E inp \in CodestreamInputs, cont \in BOOLEAN :
          cs' = requireMarker(cs, inp, cont, "SOC", "ExpectSIZ")
    /\ UNCHANGED <<drv, probe, boxWalk, rdfCall, handles>>

csExpectSIZ ==
    /\ cs.state = "ExpectSIZ"
    /\ cs.nread < MaxMarkers
    /\ \E inp \in CodestreamInputs, cont \in BOOLEAN :
          cs' = requireMarker(cs, inp, cont, "SIZ", "MainHeader")
    /\ UNCHANGED <<drv, probe, boxWalk, rdfCall, handles>>

csMainHeader ==
    /\ cs.state = "MainHeader"
    /\ cs.nread < MaxMarkers
    /\ \E inp \in CodestreamInputs, cont \in BOOLEAN :
          cs' = headerMarker(cs, inp, cont, MainHeaderMarkers, "SOT",
                             "TilePartHeader", requiredInMainHeader(cs), TRUE)
    /\ UNCHANGED <<drv, probe, boxWalk, rdfCall, handles>>

csTilePartHeader ==
    /\ cs.state = "TilePartHeader"
    /\ cs.nread < MaxMarkers
    /\ \E inp \in CodestreamInputs, cont \in BOOLEAN :
          cs' = headerMarker(cs, inp, cont, TilePartHeaderMarkers, "SOD",
                             "TileData", {}, FALSE)
    /\ UNCHANGED <<drv, probe, boxWalk, rdfCall, handles>>

csTileData ==
    /\ cs.state = "TileData"
    /\ cs.nread < MaxMarkers
    /\ \E inp \in CodestreamInputs, cont \in BOOLEAN :
          cs' = tileDataMarker(cs, inp, cont)
    /\ UNCHANGED <<drv, probe, boxWalk, rdfCall, handles>>

\* the codestream is accepted: the walker ended at EOC and no test failed
codestreamIsValid(c) == c.state = "EOC" /\ c.failed = {}

InitCodestream ==
    /\ config = DefaultFlags
    /\ existingFiles = << >>
    /\ pc = "idle"
    /\ args = NoArgs
    /\ ncalls = 0
    /\ out = << >>
    /\ nDone = 0
    /\ root = NoRoot
    /\ heap = EmptyHeap
    /\ resultsJP2 = NoResult
    /\ rawResult = NoTrees
    /\ raised = None
    /\ lastEnv = NoEnv
    /\ probe = NoProbe
    /\ boxWalk = NoWalk
    /\ cs = [NoCodestream EXCEPT !.state = "Initial"]
    /\ rdfCall = NoRdfCall
    /\ handles = NoHandles

NextCodestream ==
    csInitial \/ csExpectSIZ \/ csMainHeader \/ csTilePartHeader \/ csTileData

SpecCodestream == InitCodestream /\ [][NextCodestream]_vars

\* the marker sequences of the codestream grammar: SOC, SIZ, a main header
\* with a COD and a QCD, then tile-parts (SOT, tile-part header, SOD, tile
\* data), then EOC and nothing behind it
FollowsGrammar(h) ==
    /\ Len(h) >= 2
    /\ h[1] = "SOC"
    /\ h[2] = "SIZ"
    /\ h[Len(h)] = "EOC"
    /\ \A i \in 1..Len(h) :
          /\ h[i] = "SOC" => i = 1
          /\ h[i] = "SIZ" => i = 2
          /\ h[i] = "EOC" => i = Len(h)
    /\ \E f \in 3..Len(h) :
          /\ h[f] = "SOT"
          /\ \A i \in 3..(f - 1) : h[i] \in MainHeaderMarkers
          /\ \E i \in 3..(f - 1) : h[i] = "COD"
          /\ \E i \in 3..(f - 1) : h[i] = "QCD"
          /\ \A i \in (f + 1)..Len(h) :
                \E d \in f..(i - 1) :
                   /\ h[d] \in {"SOT", "SOD"}
                   /\ \A j \in (d + 1)..(i - 1) : h[j] \notin {"SOT", "SOD"}
                   /\ h[d] = "SOT" =>
                         h[i] \in {"COD", "COC", "QCD", "QCC", "RGN", "POC",
                                   "PPT", "PLT", "COM", "SOD"}
                   /\ h[d] = "SOD" => h[i] \in {"SOP", "EPH", "SOT", "EOC"}

\* the transitions of the state machine
Transitions ==
    {<<"Initial", "SOC", "ExpectSIZ">>, <<"ExpectSIZ", "SIZ", "MainHeader">>,
     <<"MainHeader", "SOT", "TilePartHeader">>,
     <<"TilePartHeader", "SOD", "TileData">>,
     <<"TileData", "SOT", "TilePartHeader">>, <<"TileData", "EOC", "EOC">>}

AcceptedFollowsGrammar == codestreamIsValid(cs) => FollowsGrammar(cs.history)

OnlyAllowedTransitions ==
    /\ cs.state = "EOC" => cs' = cs
    /\ cs'.state \notin {cs.state, "Stopped"} =>
          <<cs.state, cs'.last, cs'.state>> \in Transitions

\* C9: a codestream is accepted as valid only if the markers it consumed
\* follow SOC, SIZ, a main header holding a COD and a QCD, then tile-parts
\* of SOT, tile-part header, SOD and tile data, then EOC; the walker changes
\* state only by a transition of the state machine, on the marker of that
\* transition, and does nothing more once it is at EOC.
C9_MarkerOrdering == []AcceptedFollowsGrammar /\ [][OnlyAllowedTransitions]_vars

\* an accepted codestream of two tile-parts
C9_Witness ==
    /\ codestreamIsValid(cs)
    /\ cs.history = <<"SOC", "SIZ", "COD", "QCD", "SOT", "SOD", "SOT", "SOD",
                      "EOC">>

(***************************************************************************)
(* More properties of checkOneFile (under SpecOneFile).                     *)
(***************************************************************************)
Returned == pc = "returned" /\ raised = None

\* C11: every element that checkOneFile returns has alternativeOutput as its
\* last child, and alternativeOutput holds a mix element iff config.mixFlag
\* is 1 or 2 and isValidJP2 is true; without --mix, and for every invalid or
\* failed file, it is empty.
C11_AlternativeOutput ==
    Returned =>
        /\ root.children # << >>
        /\ root.children[Len(root.children)] = "alternativeOutput"
        /\ (root.mix # NoMix) <=>
              (config.mixFlag \in {1, 2} /\ root.isValidJP2 = "True")
        /\ root.mix # NoMix => root.mix.version = config.mixFlag
        /\ (config.mixFlag = 0 \/ root.isValidJP2 = "False"
            \/ root.success = "False") => root.mix = NoMix

\* a valid file analysed with --mix 2: the mix is in alternativeOutput
C11_Witness ==
    /\ Returned
    /\ config.mixFlag = 2
    /\ root.isValidJP2 = "True"
    /\ root.mix.version = 2
    /\ root.children[7] = "alternativeOutput"

\* C12: for every valid file analysed with mixFlag 1 or 2, the compression
\* scheme of the mix is 'JPEG 2000 Lossless' exactly when the transformation
\* value that the validator extracted (before the remap) is 1, and
\* 'JPEG 2000 Lossy' for every other value.
C12_CompressionScheme ==
    (Returned /\ root.mix # NoMix) =>
        LET raw == find(rawResult.characteristics,
                        jp2c \o "/cod/transformation").text
        IN  root.mix.compressionScheme =
               IF raw = I(1) THEN "JPEG 2000 Lossless"
               ELSE "JPEG 2000 Lossy"

\* a valid file with the 5-3 transformation (raw value 1) is Lossless
C12_Witness ==
    /\ Returned
    /\ root.mix # NoMix
    /\ find(rawResult.characteristics, jp2c \o "/cod/transformation").text = I(1)
    /\ find(heap[root.properties], jp2c \o "/cod/transformation").text
          = S("5-3 reversible")
    /\ root.mix.compressionScheme = "JPEG 2000 Lossless"

(***************************************************************************)
(* The RDF lookups of generateMixImageCaptureMetadata, called on the RDF    *)
(* element of an XMP packet.  rdf:Description is present, or RDF holds      *)
(* another child, or RDF is empty; under Description each of the six values *)
(* looked up is a child element, an attribute, an empty attribute or        *)
(* absent.                                                                  *)
(***************************************************************************)
rdfPath == "xmlBox/" \o nsXMP \o "xmpmeta/" \o nsRDF \o "RDF"

descriptionPath == rdfPath \o "/" \o nsRDF \o "Description"

RdfKey(i) == RdfLookups[i][1] \o RdfLookups[i][2]

Forms == {"element", "attribute", "empty", "absent"}

RdfShapes ==
    {[description |-> d, form |-> f] :
        d \in {"present"}, f \in [1..Len(RdfLookups) -> Forms]}
    \cup {[description |-> d, form |-> [i \in 1..Len(RdfLookups) |-> "absent"]] :
            d \in {"other", "none"}}

RECURSIVE RdfChildren(_, _)
RdfChildren(form, i) ==
    IF i > Len(RdfLookups) THEN << >>
    ELSE (IF form[i] = "element"
          THEN << Node(descriptionPath, RdfKey(i), S("text 1.0")) >>
          ELSE << >>) \o RdfChildren(form, i + 1)

RdfAttrib(form) ==
    [k \in {RdfKey(i) : i \in {j \in 1..Len(RdfLookups) :
                                 form[j] \in {"attribute", "empty"}}} |->
        IF form[CHOOSE i \in 1..Len(RdfLookups) : RdfKey(i) = k] = "attribute"
        THEN "text 1.0" ELSE ""]

\* the properties tree of a file whose XML box holds the XMP packet
RdfTree(shape) ==
    << Node("", "xmlBox", NoneVal),
       Node("xmlBox", nsXMP \o "xmpmeta", NoneVal),
       Node("xmlBox/" \o nsXMP \o "xmpmeta", nsRDF \o "RDF", NoneVal) >>
    \o (IF shape.description = "present"
        THEN << NodeA(rdfPath, nsRDF \o "Description", NoneVal,
                      RdfAttrib(shape.form)) >>
             \o RdfChildren(shape.form, 1)
        ELSE IF shape.description = "other"
        THEN << Node(rdfPath, nsRDF \o "Bag", NoneVal) >>
        ELSE << >>)

InitRdf ==
    /\ config = DefaultFlags
    /\ existingFiles = << >>
    /\ pc = "idle"
    /\ args = NoArgs
    /\ ncalls = 0
    /\ out = << >>
    /\ nDone = 0
    /\ root = NoRoot
    /\ heap = EmptyHeap
    /\ resultsJP2 = NoResult
    /\ rawResult = NoTrees
    /\ raised = None
    /\ lastEnv = NoEnv
    /\ probe = NoProbe
    /\ boxWalk = NoWalk
    /\ cs = NoCodestream
    /\ rdfCall \in {[NoRdfCall EXCEPT !.tree = RdfTree(sh), !.lookup = i] :
                      sh \in RdfShapes, i \in 1..Len(RdfLookups)}
    /\ handles = NoHandles

\* findValueInRDF(rdfBox, '{rdf}Description', ns, tag)
callFindValueInRDF ==
    /\ rdfCall.called = None
    /\ LET r == findValueInRDF(rdfCall.tree, find(rdfCall.tree, rdfPath),
                               nsRDF \o "Description",
                               RdfLookups[rdfCall.lookup][1],
                               RdfLookups[rdfCall.lookup][2])
       IN  rdfCall' = [rdfCall EXCEPT !.called = "findValueInRDF",
                                      !.raised = r.raised, !.value = r.value]
    /\ UNCHANGED <<drv, probe, boxWalk, cs, handles>>

\* addIfExist(rdfBox, '{rdf}Description', ns, tag, destEl, destTagName)
callAddIfExist ==
    /\ rdfCall.called = None
    /\ LET r == addIfExist(rdfCall.tree, find(rdfCall.tree, rdfPath),
                           nsRDF \o "Description",
                           RdfLookups[rdfCall.lookup][1],
                           RdfLookups[rdfCall.lookup][2])
       IN  rdfCall' = [rdfCall EXCEPT !.called = "addIfExist",
                                      !.raised = r.raised, !.added = r.added]
    /\ UNCHANGED <<drv, probe, boxWalk, cs, handles>>

\* generateMixImageCaptureMetadata(properties, mixFlag)
callGenerateMixImageCaptureMetadata ==
    /\ rdfCall.called = None
    /\ \E mixFlag \in 1..2 :
          rdfCall' = [rdfCall EXCEPT
                        !.called = "generateMixImageCaptureMetadata",
                        !.raised = generateMixImageCaptureMetadata(
                                       rdfCall.tree, mixFlag)]
    /\ UNCHANGED <<drv, probe, boxWalk, cs, handles>>

NextRdf ==
    callFindValueInRDF \/ callAddIfExist \/ callGenerateMixImageCaptureMetadata

SpecRdf == InitRdf /\ [][NextRdf]_vars

\* the value looked up is present neither as a child element nor as a
\* non-empty attribute of rdf:Description (or Description itself is absent)
ValueMissing ==
    LET description == find(rdfCall.tree, descriptionPath)
        key == RdfKey(rdfCall.lookup)
    IN  \/ IsNone(description)
        \/ /\ IsNone(find(rdfCall.tree, descriptionPath \o "/" \o key))
           /\ (key \notin DOMAIN description.attrib
               \/ description.attrib[key] = "")

\* C13: findValueInRDF never raises and returns None when the value is
\* present neither as a child element nor as an attribute, or when the
\* element at prefixPath is absent; addIfExist then returns False; and
\* generateMixImageCaptureMetadata completes for every RDF box.
C13_LookupNeverRaises ==
    /\ rdfCall.called = "findValueInRDF" =>
          /\ rdfCall.raised = None
          /\ ValueMissing => rdfCall.value = None
    /\ rdfCall.called = "addIfExist" =>
          /\ rdfCall.raised = None
          /\ ValueMissing => ~rdfCall.added
    /\ rdfCall.called = "generateMixImageCaptureMetadata" =>
          rdfCall.raised = None

\* C14: the failure message of a failed analysis follows the kind of the
\* exception: an I/O error raised while the file is opened or mapped, the
\* more specific ones among them, gives the I/O message; a memory error the
\* memory message; a runtime error the runtime message; and only an
\* exception of none of these kinds the unknown-error message.
C14_FailureMessageClassifies ==
    (Returned /\ root.success = "False") =>
        root.failureMessage =
            IF IsInstance(lastEnv.exc, "MemoryError")
            THEN "memory error (file size too large)"
            ELSE IF IsInstance(lastEnv.exc, "IOError")
            THEN "I/O error (cannot open file)"
            ELSE IF IsInstance(lastEnv.exc, "RuntimeError")
            THEN "runtime error (please report to developers)"
            ELSE "unknown error (please report to developers)"

\* C15: when converting the modification time raises ValueError,
\* checkOneFile goes on with the epoch as the timestamp: no exception leaves
\* it, and it returns a result element (with its fileInfo) for the file.
C15_EpochOnValueError ==
    (pc = "returned" /\ lastEnv.at = "mtime"
     /\ IsInstance(lastEnv.exc, "ValueError")) =>
        /\ raised = None
        /\ root # NoRoot
        /\ \E i \in 1..Len(root.children) : root.children[i] = "fileInfo"
        /\ root.success = "True"

(***************************************************************************)
(* One call of findFiles on an empty existingFiles.                         *)
(***************************************************************************)
FindLists == UNION {[1..n -> PathArgs \cup WildcardArgs] : n \in 1..MaxPaths}

InitFind ==
    /\ config = DefaultFlags
    /\ existingFiles = << >>
    /\ pc = "idle"
    /\ args \in [recurse : BOOLEAN, wrap : {FALSE}, paths : FindLists]
    /\ ncalls = 0
    /\ out = << >>
    /\ nDone = 0
    /\ root = NoRoot
    /\ heap = EmptyHeap
    /\ resultsJP2 = NoResult
    /\ rawResult = NoTrees
    /\ raised = None
    /\ lastEnv = NoEnv
    /\ probe = NoProbe
    /\ boxWalk = NoWalk
    /\ cs = NoCodestream
    /\ rdfCall = NoRdfCall
    /\ handles = NoHandles

callFindFiles ==
    /\ pc = "idle"
    /\ existingFiles' = existingFiles \o findFiles(args.recurse, args.paths)
    /\ pc' = "found"
    /\ UNCHANGED <<config, args, ncalls, out, nDone, root, heap, resultsJP2,
                   rawResult, raised, lastEnv, probe, boxWalk, cs, rdfCall,
                   handles>>

SpecFind == InitFind /\ [][callFindFiles]_vars

\* the regular files below each directory, at any depth
FilesBelow ==
    "/cwd" :> {"/cwd/a.jp2", "/cwd/d/c.jp2", "/cwd/d/s/e.jp2"} @@
    "/cwd/d" :> {"/cwd/d/c.jp2", "/cwd/d/s/e.jp2"} @@
    "/cwd/d/s" :> {"/cwd/d/s/e.jp2"}

\* the name of each regular file
basename ==
    "/cwd/a.jp2" :> "a.jp2" @@ "/cwd/d/c.jp2" :> "c.jp2" @@
    "/cwd/d/s/e.jp2" :> "e.jp2"

NoDuplicates(seq) ==
    \A i, j \in 1..Len(seq) : seq[i] = seq[j] => i = j

\* the files of the tree below the directory of the pattern whose names
\* match it
MatchingBelow(p) ==
    {f \in FilesBelow[split(absolute(p))[1]] :
        basename[f] \in fnmatch[split(absolute(p))[2]]}

\* glob expands the pattern to one directory
ExpandsToOneDirectory(p) ==
    Len(glob(absolute(p))) = 1 /\ isdir(glob(absolute(p))[1])

\* findFiles has returned from a recursive search of the one path p
FoundRecursively(p) ==
    pc = "found" /\ args.recurse /\ args.paths = <<p>>

\* C16 as stated: with recurse set, a directory argument adds every regular
\* file of the directory and of all its subdirectories exactly once, and an
\* argument with a wildcard in its file-name part adds exactly the regular
\* files below the named directory whose names match the pattern, each once.
C16_RecursiveSearch_AsStated ==
    \A p \in PathArgs \cup WildcardArgs :
       FoundRecursively(p) =>
          /\ isdir(absolute(p)) =>
                /\ NoDuplicates(existingFiles)
                /\ Range(existingFiles) = FilesBelow[absolute(p)]
          /\ p \in WildcardArgs =>
                /\ NoDuplicates(existingFiles)
                /\ Range(existingFiles) = MatchingBelow(p)

\* C16: with recurse set, a directory argument adds every regular file of
\* the directory and of all its subdirectories exactly once; an argument
\* with a wildcard in its file-name part that glob expands to exactly one
\* directory is searched as that directory (every regular file below it,
\* each once, matching or not); any other such argument adds exactly the
\* regular files below the named directory whose names match the pattern,
\* each once.
C16_RecursiveSearch ==
    \A p \in PathArgs \cup WildcardArgs :
       FoundRecursively(p) =>
          /\ isdir(absolute(p)) =>
                /\ NoDuplicates(existingFiles)
                /\ Range(existingFiles) = FilesBelow[absolute(p)]
          /\ (p \in WildcardArgs /\ ExpandsToOneDirectory(p)) =>
                /\ NoDuplicates(existingFiles)
                /\ Range(existingFiles) = FilesBelow[glob(absolute(p))[1]]
          /\ (p \in WildcardArgs /\ ~ExpandsToOneDirectory(p)) =>
                /\ NoDuplicates(existingFiles)
                /\ Range(existingFiles) = MatchingBelow(p)

\* the pattern d/s* expands to the one directory d/s, and its recursive
\* search has added the file of d/s, whose name does not match s*
C16_Witness ==
    /\ FoundRecursively("d/s*")
    /\ ExpandsToOneDirectory("d/s*")
    /\ existingFiles = <<"/cwd/d/s/e.jp2">>

\* C17: when checkOneFile is left, on a successful or a failing path, the
\* file object opened by fileToMemoryMap and the memory map it returned are
\* both closed: neither is still open after an exception in mmap or in the
\* validator.
C17_HandlesClosed ==
    pc = "returned" => (handles.f # "open" /\ handles.fileData # "open")

\* C18: every key of the remap tables of the ICC signature fields
\* profileClass and primaryPlatform is a byte string of exactly 4 bytes, so
\* a 4-byte field read from a profile header that names a listed class or
\* platform is remapped.
C18_SignatureKeysFourBytes ==
    /\ \A tag \in {"profileClass", "primaryPlatform"} :
          \A key \in DOMAIN generatePropertiesRemapTable[tag] :
             key.k = "bytes" /\ Len(key.b) = 4
    /\ (/\ probe.tag = "primaryPlatform"
        /\ probe.textIn = B(<<83, 71, 73, 32>>)
        /\ probe.done) => probe.textOut # probe.textIn

====
